---- MODULE Spec2Model ----
(***************************************************************************)
(* kantek plugin manager (src/kantek/utils/pluginmgr.py).                  *)
(*                                                                         *)
(* Python strings are sequences of one-character strings, so that         *)
(* str.rstrip, str.replace, str.startswith, os.path.splitext and          *)
(* os.path.relpath are computed character by character.                   *)
(***************************************************************************)
EXTENDS Integers, Sequences, FiniteSets, TLC

(* ---------------------------------------------------------------- bounds *)

\* number of directory entries os.walk reports under the plugin folder
MaxFiles == 2
\* number of calls of the public operations in one run
MaxCalls == 3
\* number of keyword arguments of one handler marker
MaxKw == 3
\* number of directory entries of a tree that is only scanned
MaxScan == 3
\* number of statements before the class of a module that is only inspected
MaxItems == 2
\* number of methods of the class of such a module
MaxMethods == 2

(* --------------------------------------------------------------- strings *)

\* Python's None: no character sequence equals it (characters are one long)
None == <<"None">>

s_py == <<".", "p", "y">>
s_txt == <<".", "t", "x", "t">>
s_builtins == <<"b", "u", "i", "l", "t", "i", "n", "s">>
s_fun == <<"f", "u", "n">>
s_ping == <<"p", "i", "n", "g">>
s_Ping == <<"P", "i", "n", "g">>
s_spy == <<"s", "p", "y">>
s_Spy == <<"S", "p", "y">>
s_core == <<"c", "o", "r", "e">>
s_Core == <<"C", "o", "r", "e">>
s_bad == <<"b", "a", "d">>
s_lib == <<"l", "i", "b">>
s_doc == <<"d", "o", "c">>
s_h == <<"h">>
s_v == <<"1">>
s_plugins == <<"p", "l", "u", "g", "i", "n", "s">>
s_version == <<"_", "_", "v", "e", "r", "s", "i", "o", "n", "_", "_">>

Range(s) == {s[i] : i \in DOMAIN s}

\* str.startswith(prefix)
StartsWith(s, prefix) ==
    /\ Len(prefix) <= Len(s)
    /\ SubSeq(s, 1, Len(prefix)) = prefix

\* str.rstrip(chars): drops trailing characters while they are in the set chars
RECURSIVE RStrip(_, _)
RStrip(s, chars) ==
    IF s # <<>> /\ s[Len(s)] \in chars
    THEN RStrip(SubSeq(s, 1, Len(s) - 1), chars)
    ELSE s

\* str.replace(old, new) for a one-character old
Replace(s, old, new) == [i \in DOMAIN s |-> IF s[i] = old THEN new ELSE s[i]]

\* os.path.join(a, b) for a relative b
Join(a, b, sep) == a \o <<sep>> \o b

\* os.path.relpath(path, start) for a path below start
RelPath(path, start) == SubSeq(path, Len(start) + 2, Len(path))

\* index of the last '.' of a file name, 0 when there is none
LastDot(file) ==
    LET dots == {i \in DOMAIN file : file[i] = "."}
    IN  IF dots = {} THEN 0 ELSE CHOOSE i \in dots : \A j \in dots : j <= i

\* a slip in splitext: the name is cut at its first dot
SplitExtFirstDot(file) ==
    LET dots == {i \in DOMAIN file : file[i] = "."}
        d == IF dots = {} THEN 0 ELSE CHOOSE i \in dots : \A j \in dots : i <= j
    IN  IF d > 1
        THEN <<SubSeq(file, 1, d - 1), SubSeq(file, d, Len(file))>>
        ELSE <<file, <<>>>>

\* os.path.splitext(file): the extension starts at the last dot, unless only
\* dots precede it
SplitExt(file) ==
    LET d == LastDot(file)
    IN  IF d > 0 /\ \E i \in 1..(d - 1) : file[i] # "."
        THEN <<SubSeq(file, 1, d - 1), SubSeq(file, d, Len(file))>>
        ELSE <<file, <<>>>>

(* ------------------------------------------------------- plugin sources *)

\* A keyword argument of a call: keyword.arg and keyword.value.  The value is
\* "True", "False" or "None" for an ast.NameConstant, "expr" for anything else.
Kw(arg, value) == [arg |-> arg, value |-> value]

\* An argument of a decorator call: a call with keywords (call is TRUE), or
\* another expression, which has no attribute keywords.
Arg(call, keywords) == [call |-> call, keywords |-> keywords]

\* A decorator.  shape is "x.y(...)" for a call of an attribute of a name, the
\* only shape in which decorator.func.value.id exists; "f(...)" for a call of
\* a name and "f" for a bare name.  id is the leading name.
Decorator(shape, id, args) == [shape |-> shape, id |-> id, args |-> args]

\* A decorator events.<x>(<Call>(keywords...)): decorator.func.value.id and
\* decorator.args, each argument with its own keywords.
Marker(keywords) == Decorator("x.y(...)", "events", <<Arg(TRUE, keywords)>>)

\* A statement of a class body.  handler is events.is_handler of the function
\* object the class binds to the name.
Method(kind, name, doc, handler, decorator_list) ==
    [kind |-> kind, name |-> name, doc |-> doc, handler |-> handler,
     decorator_list |-> decorator_list]

\* An ast.Assign.  target is "Name" when targets[0] is a name, the only
\* target with an attribute id (name); str tells whether the value is a
\* string literal, the only value with an attribute s (value).
AssignNode(target, id, str, value) ==
    [kind |-> "Assign", target |-> target, name |-> id, str |-> str,
     value |-> value, bases |-> FALSE, subclass |-> FALSE, attr_name |-> None,
     attr_help |-> None, body |-> <<>>]

\* A top-level statement of a module: an ast.Assign (name is targets[0].id,
\* value is value.s), an ast.ClassDef, or anything else.
Assign(id, value) == AssignNode("Name", id, TRUE, value)

\* a statement that is neither an assignment nor a class definition
Expr == [kind |-> "Expr"]

ClassDef(name, bases, subclass, attr_name, attr_help, body) ==
    [kind |-> "ClassDef", name |-> name, value |-> <<>>, bases |-> bases,
     subclass |-> subclass, attr_name |-> attr_name, attr_help |-> attr_help,
     body |-> body]

\* A directory entry below the plugin folder: the directories leading to it, its
\* file name, what loading it does ("ok", "SyntaxError", "Exception") and
\* its parsed body.
File(dirs, file, load, body) ==
    [dirs |-> dirs, file |-> file, load |-> load, body |-> body]

\* plugins/ping.py
PingFile ==
    File(<<>>, s_ping \o s_py, "ok",
         <<ClassDef(s_Ping, TRUE, TRUE, s_Ping, s_h,
              <<Method("AsyncFunctionDef", s_ping, s_h, TRUE,
                       <<Marker(<<Kw("outgoing", "True"), Kw("pattern", "expr")>>)>>)>>)>>)

\* a plugin in a subdirectory, with a version, two handlers, a plain method
\* and an async method that is no handler
SpyFile ==
    File(<<s_fun>>, s_spy \o s_py, "ok",
         <<Assign(s_version, s_v),
           ClassDef(s_Spy, TRUE, TRUE, s_Spy, None,
              <<Method("AsyncFunctionDef", s_spy, None, TRUE,
                       <<Marker(<<Kw("incoming", "False")>>)>>),
                Method("FunctionDef", s_h, None, FALSE, <<>>),
                Method("AsyncFunctionDef", s_fun, s_h, TRUE,
                       <<Marker(<<Kw("incoming", "True"), Kw("outgoing", "False")>>)>>),
                Method("AsyncFunctionDef", s_doc, s_doc, FALSE, <<>>)>>)>>)

\* a builtin plugin whose marker has no keyword
CoreFile ==
    File(<<s_builtins>>, s_core \o s_py, "ok",
         <<ClassDef(s_Core, TRUE, TRUE, s_Core, s_h,
              <<Method("AsyncFunctionDef", s_core, s_h, TRUE,
                       <<Marker(<<>>)>>)>>)>>)

\* a module without a plugin class
LibFile ==
    File(<<>>, s_lib \o s_py, "ok",
         <<ClassDef(<<"_">> \o s_lib, TRUE, TRUE, None, None, <<>>),
           ClassDef(s_lib, FALSE, FALSE, None, None, <<>>)>>)

\* a file that does not compile
BadFile == File(<<>>, s_bad \o s_py, "SyntaxError", <<>>)

\* a file whose top-level code raises
BoomFile == File(<<s_fun>>, s_bad \o s_py, "Exception", <<>>)

\* a file that is no Python source
DocFile == File(<<>>, s_doc \o s_txt, "ok", <<>>)

Catalogue == {PingFile, SpyFile, CoreFile, LibFile, BadFile, BoomFile, DocFile}

(* --------------------------------------------------- callback inspection *)

\* dict.get(key), None when the key is absent
Get(d, key) == IF key \in DOMAIN d THEN d[key] ELSE "None"

\* dict.update(other)
Update(d, other) ==
    [k \in DOMAIN d \cup DOMAIN other |->
        IF k \in DOMAIN other THEN other[k] ELSE d[k]]

EmptyDict == [k \in {} |-> "None"]

\* the inner loop of __get_keywords over arg.keywords
RECURSIVE ArgKeywords(_, _)
ArgKeywords(keywords, kws) ==
    IF kws = <<>> THEN keywords
    ELSE LET keyword == Head(kws)
             value == keyword.value
         IN  ArgKeywords(
                 IF value \in {"True", "False", "None"}
                 THEN Update(keywords, [k \in {keyword.arg} |-> value])
                 ELSE keywords,
                 Tail(kws))

\* the outer loop of __get_keywords over decorator.args
RECURSIVE CallKeywords(_, _)
CallKeywords(keywords, args) ==
    IF args = <<>> THEN keywords
    ELSE CallKeywords(ArgKeywords(keywords, Head(args).keywords), Tail(args))

get_keywords(decorator) == CallKeywords(EmptyDict, decorator.args)

RECURSIVE DecoratorKeywords(_, _)
DecoratorKeywords(keywords, decorators) ==
    IF decorators = <<>> THEN keywords
    ELSE LET decorator == Head(decorators)
         IN  DecoratorKeywords(
                 IF decorator.id = "events"
                 THEN Update(keywords, get_keywords(decorator))
                 ELSE keywords,
                 Tail(decorators))

get_event_decorator_keywords(func) ==
    DecoratorKeywords(EmptyDict, func.decorator_list)

\* a slip in is_private: the incoming test runs last and overrides outgoing
is_private_swapped(keywords) ==
    LET incoming == Get(keywords, "incoming")
        outgoing == Get(keywords, "outgoing")
        p0 == FALSE
        p1 == IF outgoing # "None" THEN outgoing = "True" ELSE p0
        p2 == IF incoming # "None" THEN ~(incoming = "True") ELSE p1
    IN  p2

is_private(keywords) ==
    LET incoming == Get(keywords, "incoming")
        outgoing == Get(keywords, "outgoing")
        p0 == FALSE
        p1 == IF incoming # "None" THEN ~(incoming = "True") ELSE p0
        p2 == IF outgoing # "None" THEN outgoing = "True" ELSE p1
    IN  p2

\* getattr(plugin, method.name): the class binds a name to its last definition
GetAttr(body, name) ==
    LET at == {i \in DOMAIN body : body[i].name = name}
    IN  body[CHOOSE i \in at : \A j \in at : j <= i]

Callback(name, help, callback, private) ==
    [name |-> name, help |-> help, callback |-> callback, private |-> private]

\* The function object of method `name` of class `cls` made by load number
\* `load`: every load of a module runs its code again and makes new functions.
Func(load, cls, name) == [load |-> load, cls |-> cls, fn |-> name]

\* the loop over item.body of _get_plugin_callbacks
RECURSIVE ClassCallbacks(_, _, _, _)
ClassCallbacks(callbacks, load, item, methods) ==
    IF methods = <<>> THEN callbacks
    ELSE LET method == Head(methods)
             func == GetAttr(item.body, method.name)
         IN  ClassCallbacks(
                 IF method.kind = "AsyncFunctionDef" /\ func.handler
                 THEN Append(callbacks,
                             Callback(method.name, func.doc,
                                      Func(load, item.name, method.name),
                                      is_private(get_event_decorator_keywords(method))))
                 ELSE callbacks,
                 load, item, Tail(methods))

\* the test both loops over tree.body apply to a class definition
IsPluginClass(item) ==
    /\ item.kind = "ClassDef"
    /\ ~StartsWith(item.name, <<"_">>)
    /\ item.bases
    /\ item.subclass

\* the loop over tree.body of _get_plugin_callbacks
RECURSIVE ModuleCallbacks(_, _, _)
ModuleCallbacks(callbacks, load, items) ==
    IF items = <<>> THEN callbacks
    ELSE LET item == Head(items)
         IN  ModuleCallbacks(
                 IF IsPluginClass(item)
                 THEN ClassCallbacks(callbacks, load, item, item.body)
                 ELSE callbacks,
                 load, Tail(items))

\* _get_plugin_callbacks of a file that loads; `load` numbers the load
get_plugin_callbacks(load, f) == ModuleCallbacks(<<>>, load, f.body)

\* the loop over tree.body of _get_plugin_info
RECURSIVE ModuleInfo(_, _)
ModuleInfo(info, items) ==
    IF items = <<>> THEN info
    ELSE LET item == Head(items)
         IN  ModuleInfo(
                 IF item.kind = "Assign"
                 THEN IF item.name = s_version
                      THEN [info EXCEPT !.version = item.value]
                      ELSE info
                 ELSE IF IsPluginClass(item)
                      THEN [info EXCEPT !.name = item.attr_name,
                                        !.help = item.attr_help]
                      ELSE info,
                 Tail(items))

\* _get_plugin_info of a file that loads
get_plugin_info(f) ==
    ModuleInfo([version |-> <<>>, name |-> <<>>, help |-> <<>>], f.body)

\* lines 179-181 raise AttributeError: the target of an assignment has no id,
\* or the value assigned to __version__ has no s
InfoRaises(items) ==
    \E i \in DOMAIN items :
        /\ items[i].kind = "Assign"
        /\ \/ items[i].target # "Name"
           \/ items[i].name = s_version /\ ~items[i].str

\* lines 204 and 212 raise AttributeError: a decorator has no func.value.id,
\* or an argument of an events decorator has no keywords
DecoratorRaises(decorator) ==
    \/ decorator.shape # "x.y(...)"
    \/ /\ decorator.id = "events"
       /\ \E i \in DOMAIN decorator.args : ~decorator.args[i].call

\* line 162 raises for a method the loop of line 157 takes for a handler
MethodRaises(item, method) ==
    /\ method.kind = "AsyncFunctionDef"
    /\ GetAttr(item.body, method.name).handler
    /\ \E i \in DOMAIN method.decorator_list :
           DecoratorRaises(method.decorator_list[i])

\* _get_plugin_callbacks raises AttributeError
CallbacksRaise(items) ==
    \E i \in DOMAIN items :
        /\ IsPluginClass(items[i])
        /\ \E j \in DOMAIN items[i].body :
               MethodRaises(items[i], items[i].body[j])

\* how lines 84-86 end for a file: "ok", or the exception they raise
Outcome(f) ==
    IF f.load # "ok" THEN f.load
    ELSE IF InfoRaises(f.body) \/ CallbacksRaise(f.body) THEN "AttributeError"
    ELSE "ok"

(* ------------------------------------------------------------------ state *)

VARIABLES
    sep,              \* os.sep of the platform
    disk,             \* the files below the plugin folder, in os.walk order
    active_plugins,   \* PluginManager.active_plugins
    handlers,         \* the host client's handler table
    loads,            \* how many times a module has been loaded
    pc,               \* the statement the manager is at, "idle" between calls
    todo,             \* register_all: the rest of the plugin list
    callbacks,        \* register_all: the callbacks of the file at hand
    active_commands,  \* register_all: the callbacks added so far
    it,               \* unregister_all: index of the list iterator
    builtins,         \* unregister_all: its argument
    plugin,           \* unregister_plugin: its argument
    k,                \* unregister_plugin: index into plugin.callbacks
    caller,           \* unregister_plugin: "unregister_all" or "idle"
    hist,             \* the calls made so far and how each ended
    pre,              \* the registry, the table and the argument when the last
                      \* call began
    ret,              \* what the last call returned
    seen,             \* what the last dispatch of the host client saw
    marker,           \* the keyword arguments of a handler marker to classify
    private           \* the classification of marker, "None" before it is made

vars ==
    <<sep, disk, active_plugins, handlers, loads, pc, todo, callbacks,
      active_commands, it, builtins, plugin, k, caller, hist, pre, ret, seen,
      marker, private>>

\* PluginManager.plugin_path: os.path.abspath('./plugins'), the working
\* directory being the root of the file system
plugin_path == <<sep>> \o s_plugins

\* the directory os.walk reports for a file
RECURSIVE WalkRoot(_, _)
WalkRoot(root, dirs) ==
    IF dirs = <<>> THEN root
    ELSE WalkRoot(Join(root, Head(dirs), sep), Tail(dirs))

FullPath(f) == Join(WalkRoot(plugin_path, f.dirs), f.file, sep)

\* the file a path names
FileAt(path) == CHOOSE f \in Range(disk) : FullPath(f) = path

\* _get_plugin_list: the (name, path) pairs of the '.py' files, in walk order
RECURSIVE PluginList(_, _)
PluginList(plugins, files) ==
    IF files = <<>> THEN plugins
    ELSE LET f == Head(files)
             path == FullPath(f)
             ne == SplitExt(f.file)
         IN  PluginList(
                 IF ne[2] = s_py
                 THEN Append(plugins, [name |-> ne[1], path |-> path])
                 ELSE plugins,
                 Tail(files))

get_plugin_list == PluginList(<<>>, disk)

\* the dataclass Plugin
Plugin(name, help, cbs, full_path, ppath, version) ==
    [name |-> name, help |-> help, callbacks |-> cbs, full_path |-> full_path,
     plugin_path |-> ppath, version |-> version]

\* Plugin.path
Path(p) ==
    Replace(RStrip(RelPath(p.full_path, p.plugin_path), {".", "p", "y"}),
            "\\", "/")

\* line 114: plugin.path.startswith('builtins/')
IsBuiltin(p) == StartsWith(Path(p), s_builtins \o <<"/">>)

\* _get_plugin_location
get_plugin_location(path) ==
    Replace(RStrip(RelPath(path, plugin_path), {".", "p", "y"}), "\\", "/")

\* the host client's add_event_handler
add_event_handler(table, callback) == Append(table, callback)

\* the host client's remove_event_handler: an unknown handler is a no-op
remove_event_handler(table, callback) ==
    SelectSeq(table, LAMBDA h : h # callback)

\* a slip in list.remove: every element equal to x is dropped
ListRemoveAll(list, x) == SelectSeq(list, LAMBDA e : e # x)

\* list.remove(x): drops the first element equal to x
ListRemove(list, x) ==
    LET at == CHOOSE i \in DOMAIN list :
                  list[i] = x /\ \A j \in 1..(i - 1) : list[j] # x
    IN  SubSeq(list, 1, at - 1) \o SubSeq(list, at + 1, Len(list))

NoPlugin == Plugin(<<>>, <<>>, <<>>, <<>>, <<>>, <<>>)

NoLocals ==
    /\ todo' = <<>>
    /\ callbacks' = <<>>
    /\ active_commands' = <<>>
    /\ it' = 0
    /\ builtins' = FALSE
    /\ plugin' = NoPlugin
    /\ k' = 0
    /\ caller' = "idle"

Call(op, res) == [op |-> op, res |-> res]

\* the callback handles of the plugins of a list
Handles(list) ==
    UNION {{list[i].callbacks[j].callback : j \in DOMAIN list[i].callbacks} :
               i \in DOMAIN list}

NothingSeen ==
    [during |-> "none", orphan |-> FALSE, missing |-> FALSE, partial |-> FALSE]

\* every sequence without repetition of at most n elements of S
Arrangements(S, n) ==
    {s \in UNION {[1..m -> S] : m \in 0..n} :
        \A i, j \in DOMAIN s : i # j => s[i] # s[j]}

Init ==
    /\ sep \in {"/", "\\"}
    /\ disk \in Arrangements(Catalogue, MaxFiles)
    /\ active_plugins = <<>>
    /\ handlers = <<>>
    /\ loads = 0
    /\ pc = "idle"
    /\ todo = <<>>
    /\ callbacks = <<>>
    /\ active_commands = <<>>
    /\ it = 0
    /\ builtins = FALSE
    /\ plugin = NoPlugin
    /\ k = 0
    /\ caller = "idle"
    /\ hist = <<>>
    /\ pre = [active |-> <<>>, handlers |-> <<>>, plugin |-> NoPlugin]
    /\ ret = None
    /\ seen = NothingSeen
    /\ marker = <<>>
    /\ private = "None"

(* ------------------------------------------------------------ register_all *)

\* line 83: the plugin list is computed once, when the loop starts
RegisterAll ==
    /\ pc = "idle"
    /\ Len(hist) < MaxCalls
    /\ pc' = "register_all"
    /\ todo' = get_plugin_list
    /\ pre' = [active |-> active_plugins, handlers |-> handlers,
               plugin |-> NoPlugin]
    /\ hist' = Append(hist, Call("register_all", "running"))
    /\ UNCHANGED <<marker, private, sep, disk, active_plugins, handlers, loads, callbacks,
                   active_commands, it, builtins, plugin, k, caller, ret, seen>>

\* lines 84-86: both loads of the next file and both inspections succeed
RegisterLoad ==
    /\ pc = "register_all"
    /\ todo # <<>>
    /\ LET f == FileAt(Head(todo).path)
       IN  /\ Outcome(f) = "ok"
           /\ loads' = loads + 2
           /\ callbacks' = get_plugin_callbacks(loads + 2, f)
    /\ active_commands' = <<>>
    /\ pc' = "add"
    /\ UNCHANGED <<marker, private, sep, disk, active_plugins, handlers, todo, it, builtins,
                   plugin, k, caller, hist, pre, ret, seen>>

\* lines 84-86: a load or an inspection raises, and nothing catches it
RegisterRaise ==
    /\ pc = "register_all"
    /\ todo # <<>>
    /\ LET f == FileAt(Head(todo).path)
       IN  /\ Outcome(f) # "ok"
           /\ hist' = [hist EXCEPT ![Len(hist)].res = Outcome(f)]
    /\ pc' = "idle"
    /\ ret' = None
    /\ NoLocals
    /\ UNCHANGED <<marker, private, sep, disk, active_plugins, handlers, loads, pre, seen>>

\* lines 87-90: one turn of the loop over the callbacks
RegisterAdd ==
    /\ pc = "add"
    /\ Len(active_commands) < Len(callbacks)
    /\ LET callback == callbacks[Len(active_commands) + 1]
       IN  /\ active_commands' = Append(active_commands, callback)
           /\ handlers' = add_event_handler(handlers, callback.callback)
    /\ UNCHANGED <<marker, private, sep, disk, active_plugins, loads, pc, todo, callbacks, it,
                   builtins, plugin, k, caller, hist, pre, ret, seen>>

\* a slip in register_all: a file whose path the registry already holds gets
\* no second record
RegisterAppendOnce ==
    /\ pc = "add"
    /\ Len(active_commands) = Len(callbacks)
    /\ LET plugin_name == Head(todo).name
           path == Head(todo).path
           plugin_info == get_plugin_info(FileAt(path))
       IN  active_plugins' =
               IF \E i \in DOMAIN active_plugins :
                      active_plugins[i].full_path = path
               THEN active_plugins
               ELSE Append(active_plugins,
                           Plugin(plugin_name, plugin_info.help, active_commands,
                                  path, plugin_path, plugin_info.version))
    /\ todo' = Tail(todo)
    /\ callbacks' = <<>>
    /\ active_commands' = <<>>
    /\ pc' = "register_all"
    /\ UNCHANGED <<marker, private, sep, disk, handlers, loads, it, builtins,
                   plugin, k, caller, hist, pre, ret, seen>>

\* lines 91-97: the record of the file is appended
RegisterAppend ==
    /\ pc = "add"
    /\ Len(active_commands) = Len(callbacks)
    /\ LET plugin_name == Head(todo).name
           path == Head(todo).path
           plugin_info == get_plugin_info(FileAt(path))
       IN  active_plugins' =
               Append(active_plugins,
                      Plugin(plugin_name, plugin_info.help, active_commands,
                             path, plugin_path, plugin_info.version))
    /\ todo' = Tail(todo)
    /\ callbacks' = <<>>
    /\ active_commands' = <<>>
    /\ pc' = "register_all"
    /\ UNCHANGED <<marker, private, sep, disk, handlers, loads, it, builtins, plugin, k,
                   caller, hist, pre, ret, seen>>

\* lines 99-100
RegisterReturn ==
    /\ pc = "register_all"
    /\ todo = <<>>
    /\ ret' = active_plugins
    /\ hist' = [hist EXCEPT ![Len(hist)].res = "ok"]
    /\ pc' = "idle"
    /\ NoLocals
    /\ UNCHANGED <<marker, private, sep, disk, active_plugins, handlers, loads, pre, seen>>

(* ------------------------------------------- unregister_all, unregister_plugin *)

\* a Plugin value equal to p in all but its version, as dataclasses.replace
\* or a second construction gives
Variant(p) == [p EXCEPT !.version = <<"0">>]

\* the Plugin values a caller can pass to unregister_plugin: the records of
\* the registry now and when the last call began, and a variant of each
PluginArgs ==
    LET known == Range(active_plugins) \cup Range(pre.active)
    IN  known \cup {Variant(p) : p \in known}

\* line 110: the for statement makes an iterator over the list itself
UnregisterAll(b) ==
    /\ pc = "idle"
    /\ Len(hist) < MaxCalls
    /\ pc' = "unregister_all"
    /\ it' = 0
    /\ builtins' = b
    /\ pre' = [active |-> active_plugins, handlers |-> handlers,
               plugin |-> NoPlugin]
    /\ hist' = Append(hist, Call(IF b THEN "unregister_all(True)"
                                      ELSE "unregister_all(False)", "running"))
    /\ UNCHANGED <<marker, private, sep, disk, active_plugins, handlers, loads, todo, callbacks,
                   active_commands, plugin, k, caller, ret, seen>>

\* lines 110-115: the iterator yields the element at its index, if the list
\* still has one there, and moves on
UnregisterAllNext ==
    /\ pc = "unregister_all"
    /\ it < Len(active_plugins)
    /\ it' = it + 1
    /\ LET p == active_plugins[it + 1]
       IN  IF builtins \/ ~IsBuiltin(p)
           THEN /\ plugin' = p
                /\ k' = 0
                /\ caller' = "unregister_all"
                /\ pc' = "unregister_plugin"
           ELSE UNCHANGED <<plugin, k, caller, pc>>
    /\ UNCHANGED <<marker, private, sep, disk, active_plugins, handlers, loads, todo, callbacks,
                   active_commands, builtins, hist, pre, ret, seen>>

\* line 110: the iterator is exhausted
UnregisterAllReturn ==
    /\ pc = "unregister_all"
    /\ it >= Len(active_plugins)
    /\ ret' = None
    /\ hist' = [hist EXCEPT ![Len(hist)].res = "ok"]
    /\ pc' = "idle"
    /\ NoLocals
    /\ UNCHANGED <<marker, private, sep, disk, active_plugins, handlers, loads, pre, seen>>

\* a call of unregister_plugin from outside the manager
UnregisterPlugin(p) ==
    /\ pc = "idle"
    /\ Len(hist) < MaxCalls
    /\ pc' = "unregister_plugin"
    /\ plugin' = p
    /\ k' = 0
    /\ caller' = "idle"
    /\ pre' = [active |-> active_plugins, handlers |-> handlers, plugin |-> p]
    /\ hist' = Append(hist, Call("unregister_plugin", "running"))
    /\ UNCHANGED <<marker, private, sep, disk, active_plugins, handlers, loads, todo, callbacks,
                   active_commands, it, builtins, ret, seen>>

\* lines 126-127: one turn of the loop over plugin.callbacks
UnregisterHandler ==
    /\ pc = "unregister_plugin"
    /\ k < Len(plugin.callbacks)
    /\ k' = k + 1
    /\ handlers' = remove_event_handler(handlers, plugin.callbacks[k + 1].callback)
    /\ UNCHANGED <<marker, private, sep, disk, active_plugins, loads, pc, todo, callbacks,
                   active_commands, it, builtins, plugin, caller, hist, pre,
                   ret, seen>>

\* line 128: list.remove finds the plugin
UnregisterRemove ==
    /\ pc = "unregister_plugin"
    /\ k >= Len(plugin.callbacks)
    /\ plugin \in Range(active_plugins)
    /\ active_plugins' = ListRemove(active_plugins, plugin)
    /\ IF caller = "unregister_all"
       THEN /\ pc' = "unregister_all"
            /\ plugin' = NoPlugin
            /\ k' = 0
            /\ caller' = "idle"
            /\ UNCHANGED <<todo, callbacks, active_commands, it, builtins,
                           hist, ret>>
       ELSE /\ pc' = "idle"
            /\ ret' = None
            /\ hist' = [hist EXCEPT ![Len(hist)].res = "ok"]
            /\ NoLocals
    /\ UNCHANGED <<marker, private, sep, disk, handlers, loads, pre, seen>>

\* a slip in unregister_plugin: an absent plugin is passed over in silence,
\* as set.discard does
UnregisterRaiseSilent ==
    /\ pc = "unregister_plugin"
    /\ k >= Len(plugin.callbacks)
    /\ plugin \notin Range(active_plugins)
    /\ pc' = "idle"
    /\ ret' = None
    /\ hist' = [hist EXCEPT ![Len(hist)].res = "ok"]
    /\ NoLocals
    /\ UNCHANGED <<marker, private, sep, disk, active_plugins, handlers, loads,
                   pre, seen>>

\* line 128: list.remove raises ValueError, which also ends an unregister_all
UnregisterRaise ==
    /\ pc = "unregister_plugin"
    /\ k >= Len(plugin.callbacks)
    /\ plugin \notin Range(active_plugins)
    /\ pc' = "idle"
    /\ ret' = None
    /\ hist' = [hist EXCEPT ![Len(hist)].res = "ValueError"]
    /\ NoLocals
    /\ UNCHANGED <<marker, private, sep, disk, active_plugins, handlers, loads, pre, seen>>

(* ---------------------------------------------------------------- dispatch *)

\* the table holds some but not all callbacks of the list cbs
Partial(cbs) ==
    /\ \E i \in DOMAIN cbs : cbs[i].callback \in Range(handlers)
    /\ \E i \in DOMAIN cbs : cbs[i].callback \notin Range(handlers)

\* The host client handles an update: it walks its handler table.  Nothing in
\* the manager keeps it from doing so while a call is at any statement.
Dispatch ==
    /\ seen' = [during |-> pc,
                orphan |-> Range(handlers) \ Handles(active_plugins) # {},
                missing |-> Handles(active_plugins) \ Range(handlers) # {},
                partial |-> \/ Partial(callbacks)
                            \/ Partial(plugin.callbacks)
                            \/ \E i \in DOMAIN active_plugins :
                                   Partial(active_plugins[i].callbacks)]
    /\ seen' # seen
    /\ UNCHANGED <<marker, private, sep, disk, active_plugins, handlers, loads, pc, todo,
                   callbacks, active_commands, it, builtins, plugin, k, caller,
                   hist, pre, ret>>

Next ==
    \/ RegisterAll
    \/ RegisterLoad
    \/ RegisterRaise
    \/ RegisterAdd
    \/ RegisterAppend
    \/ RegisterReturn
    \/ \E b \in BOOLEAN : UnregisterAll(b)
    \/ UnregisterAllNext
    \/ UnregisterAllReturn
    \/ \E p \in PluginArgs : UnregisterPlugin(p)
    \/ UnregisterHandler
    \/ UnregisterRemove
    \/ UnregisterRaise

Spec == Init /\ [][Next]_vars

\* the manager together with the dispatch loop of the host client
NextConcurrent ==
    \/ Next
    \/ Dispatch

SpecConcurrent == Init /\ [][NextConcurrent]_vars

(* ------------------------------------------------- classifying one marker *)

\* the keyword arguments a marker can carry: the two filters with a literal
\* True, False or None or with another expression, and a pattern
KwArgs ==
    {Kw(a, v) : a \in {"incoming", "outgoing"},
                v \in {"True", "False", "None", "expr"}}
        \cup {Kw("pattern", "expr")}

\* Python rejects a call that repeats a keyword
Markers ==
    {m \in UNION {[1..n -> KwArgs] : n \in 0..MaxKw} :
        \A i, j \in DOMAIN m : i # j => m[i].arg # m[j].arg}

InitPrivate ==
    /\ sep = "/"
    /\ disk = <<>>
    /\ active_plugins = <<>>
    /\ handlers = <<>>
    /\ loads = 0
    /\ pc = "idle"
    /\ todo = <<>>
    /\ callbacks = <<>>
    /\ active_commands = <<>>
    /\ it = 0
    /\ builtins = FALSE
    /\ plugin = NoPlugin
    /\ k = 0
    /\ caller = "idle"
    /\ hist = <<>>
    /\ pre = [active |-> <<>>, handlers |-> <<>>, plugin |-> NoPlugin]
    /\ ret = None
    /\ seen = NothingSeen
    /\ marker \in Markers
    /\ private = "None"

\* lines 161-162 for an async handler method decorated with the marker
Classify ==
    /\ private = "None"
    /\ LET method == Method("AsyncFunctionDef", s_h, None, TRUE,
                            <<Marker(marker)>>)
       IN  private' = IF is_private(get_event_decorator_keywords(method))
                      THEN "True" ELSE "False"
    /\ UNCHANGED <<marker, sep, disk, active_plugins, handlers, loads, pc,
                   todo, callbacks, active_commands, it, builtins, plugin, k,
                   caller, hist, pre, ret, seen>>

NextPrivate == Classify

SpecPrivate == InitPrivate /\ [][NextPrivate]_vars

(* ------------------------------------------------------ scanning a tree *)

\* the entries of the trees that are scanned: '.py' files at three depths, two
\* of them with the same name, one with a dot in its base name, and files the
\* scan passes over (other extensions, no extension, a hidden file named 'py')
ScanCatalogue ==
    {File(<<>>, s_ping \o s_py, "ok", <<>>),
     File(<<s_fun>>, s_ping \o s_py, "ok", <<>>),
     File(<<s_fun, s_lib>>, <<"a", ".", "b">> \o s_py, "ok", <<>>),
     File(<<s_builtins>>, s_core \o s_py, "ok", <<>>),
     File(<<>>, s_doc \o s_txt, "ok", <<>>),
     File(<<s_fun>>, s_ping \o s_py \o <<"c">>, "ok", <<>>),
     File(<<s_fun, s_lib>>, s_ping \o s_py \o s_txt, "ok", <<>>),
     File(<<>>, s_py, "ok", <<>>),
     File(<<s_fun>>, <<"p", "y">>, "ok", <<>>)}

InitScan ==
    /\ sep \in {"/", "\\"}
    /\ disk \in Arrangements(ScanCatalogue, MaxScan)
    /\ active_plugins = <<>>
    /\ handlers = <<>>
    /\ loads = 0
    /\ pc = "idle"
    /\ todo = <<>>
    /\ callbacks = <<>>
    /\ active_commands = <<>>
    /\ it = 0
    /\ builtins = FALSE
    /\ plugin = NoPlugin
    /\ k = 0
    /\ caller = "idle"
    /\ hist = <<>>
    /\ pre = [active |-> <<>>, handlers |-> <<>>, plugin |-> NoPlugin]
    /\ ret = None
    /\ seen = NothingSeen
    /\ marker = <<>>
    /\ private = "None"

\* a call of _get_plugin_list
Scan ==
    /\ hist = <<>>
    /\ hist' = <<Call("_get_plugin_list", "ok")>>
    /\ ret' = get_plugin_list
    /\ UNCHANGED <<marker, private, sep, disk, active_plugins, handlers, loads,
                   pc, todo, callbacks, active_commands, it, builtins, plugin,
                   k, caller, pre, seen>>

NextScan == Scan

SpecScan == InitScan /\ [][NextScan]_vars

(* -------------------------------------------------- inspecting one module *)

\* every sequence of at most n elements of S
SeqsUpTo(S, n) == UNION {[1..m -> S] : m \in 0..n}

\* the statements a module has before its class: assignments to a name, to
\* __version__ (a string, a tuple), to an attribute, and an expression
StmtPool ==
    {Assign(s_doc, s_h),
     Assign(s_version, s_v),
     AssignNode("Name", s_version, FALSE, <<>>),
     AssignNode("Attribute", s_doc, TRUE, s_h),
     Expr}

\* the methods of its class: a plain method, an async method without marker,
\* two handlers with a well-formed marker, a handler registered with
\* @register(NewMessage(...)), a handler registered with
\* @events.register(NewMessage), an async method under @staticmethod, and a
\* plain method carrying a marker
MethodPool ==
    {Method("FunctionDef", s_h, None, FALSE, <<>>),
     Method("AsyncFunctionDef", s_doc, s_doc, FALSE, <<>>),
     Method("AsyncFunctionDef", s_ping, s_h, TRUE,
            <<Marker(<<Kw("outgoing", "True"), Kw("pattern", "expr")>>)>>),
     Method("AsyncFunctionDef", s_core, None, TRUE, <<Marker(<<>>)>>),
     Method("AsyncFunctionDef", s_spy, s_h, TRUE,
            <<Decorator("f(...)", "register", <<Arg(TRUE, <<>>)>>)>>),
     Method("AsyncFunctionDef", s_fun, s_h, TRUE,
            <<Decorator("x.y(...)", "events", <<Arg(FALSE, <<>>)>>)>>),
     Method("AsyncFunctionDef", s_lib, None, FALSE,
            <<Decorator("f", "staticmethod", <<>>)>>),
     Method("FunctionDef", s_bad, None, TRUE, <<Marker(<<>>)>>)}

\* class bodies: methods of different names
ClassBodies ==
    {b \in SeqsUpTo(MethodPool, MaxMethods) :
        \A i, j \in DOMAIN b : i # j => b[i].name # b[j].name}

\* the modules inspected: statements, then one qualifying class that declares
\* name and help or inherits both from KantekPlugin
Modules ==
    {stmts \o <<ClassDef(s_Ping, TRUE, TRUE, attrs[1], attrs[2], b)>> :
        stmts \in SeqsUpTo(StmtPool, MaxItems),
        attrs \in {<<s_Ping, s_h>>, <<None, None>>},
        b \in ClassBodies}

InitInspect ==
    /\ sep = "/"
    /\ disk \in {<<File(<<>>, s_ping \o s_py, "ok", body)>> : body \in Modules}
    /\ active_plugins = <<>>
    /\ handlers = <<>>
    /\ loads = 0
    /\ pc = "idle"
    /\ todo = <<>>
    /\ callbacks = <<>>
    /\ active_commands = <<>>
    /\ it = 0
    /\ builtins = FALSE
    /\ plugin = NoPlugin
    /\ k = 0
    /\ caller = "idle"
    /\ hist = <<>>
    /\ pre = [active |-> <<>>, handlers |-> <<>>, plugin |-> NoPlugin]
    /\ ret = None
    /\ seen = NothingSeen
    /\ marker = <<>>
    /\ private = "None"

\* a call of _get_plugin_info on the file
GetPluginInfo ==
    /\ hist = <<>>
    /\ loads' = loads + 1
    /\ IF InfoRaises(disk[1].body)
       THEN /\ hist' = <<Call("_get_plugin_info", "AttributeError")>>
            /\ ret' = None
       ELSE /\ hist' = <<Call("_get_plugin_info", "ok")>>
            /\ ret' = get_plugin_info(disk[1])
    /\ UNCHANGED <<marker, private, sep, disk, active_plugins, handlers, pc,
                   todo, callbacks, active_commands, it, builtins, plugin, k,
                   caller, pre, seen>>

\* a call of _get_plugin_callbacks on the file
GetPluginCallbacks ==
    /\ hist = <<>>
    /\ loads' = loads + 1
    /\ IF CallbacksRaise(disk[1].body)
       THEN /\ hist' = <<Call("_get_plugin_callbacks", "AttributeError")>>
            /\ ret' = None
       ELSE /\ hist' = <<Call("_get_plugin_callbacks", "ok")>>
            /\ ret' = get_plugin_callbacks(loads + 1, disk[1])
    /\ UNCHANGED <<marker, private, sep, disk, active_plugins, handlers, pc,
                   todo, callbacks, active_commands, it, builtins, plugin, k,
                   caller, pre, seen>>

NextInspect ==
    \/ GetPluginInfo
    \/ GetPluginCallbacks

SpecInspect == InitInspect /\ [][NextInspect]_vars

(* ----------------------------------------------------------- properties *)

\* the call made last
Last == hist[Len(hist)]

\* the last call has ended
Ended == pc = "idle" /\ hist # <<>>

\* the records the last call appended
Appended == SubSeq(active_plugins, Len(pre.active) + 1, Len(active_plugins))

\* C1: register_all on an empty registry followed by unregister_all(False)
\* leaves exactly the records whose path starts with 'builtins/'.
C1_OnlyBuiltinsRemain ==
    (/\ Ended
     /\ hist = <<Call("register_all", "ok"), Call("unregister_all(False)", "ok")>>)
        => active_plugins = SelectSeq(pre.active, IsBuiltin)

\* C2: after unregister_all(True) returns, the registry is empty and the
\* handler table holds no handler.
C2_AllRemoved ==
    (Ended /\ Last = Call("unregister_all(True)", "ok"))
        => active_plugins = <<>> /\ handlers = <<>>

\* C3: between calls, however they ended, the handles of the handler table
\* are the callback handles of the records of the registry.
C3_RegistryInvariant ==
    pc = "idle" => Range(handlers) = Handles(active_plugins)

\* C4: a dispatch that runs while a call of the manager is under way sees no
\* handler without an active plugin, no active plugin without its handlers
\* and no plugin with only some of its handlers.
C4_DispatchSeesWholeState ==
    seen.during \notin {"none", "idle"}
        => ~seen.orphan /\ ~seen.missing /\ ~seen.partial

\* C5: unregister_plugin(p) with p not in the registry fails with the
\* ValueError of list.remove, the NotFound condition, and does not return.
C5_AbsentPluginFails ==
    (/\ Ended
     /\ Last.op = "unregister_plugin"
     /\ pre.plugin \notin Range(pre.active))
        => Last.res = "ValueError"

\* a second unregister_plugin(p) after the first one succeeded has failed,
\* p being a plugin with a callback
C5_Witness ==
    /\ Ended
    /\ Len(hist) = 3
    /\ hist[2] = Call("unregister_plugin", "ok")
    /\ hist[3] = Call("unregister_plugin", "ValueError")
    /\ pre.plugin \notin Range(pre.active)
    /\ pre.plugin # Variant(pre.plugin)
    /\ pre.plugin.callbacks # <<>>
    /\ active_plugins = pre.active

\* the files of the plugin list that load
RECURSIVE Loadable(_)
Loadable(plugins) ==
    IF plugins = <<>> THEN <<>>
    ELSE IF FileAt(Head(plugins).path).load = "ok"
         THEN <<Head(plugins)>> \o Loadable(Tail(plugins))
         ELSE Loadable(Tail(plugins))

\* C6: register_all returns normally also when a file does not compile or
\* raises; it appends a record for every other file, before or after the
\* failing one, adds their callbacks, and makes no record for the failing file.
C6_FailingFileSkipped ==
    (Ended /\ Last.op = "register_all")
        => /\ Last.res = "ok"
           /\ [i \in DOMAIN Appended |-> Appended[i].full_path]
                  = [i \in DOMAIN Loadable(get_plugin_list) |->
                        Loadable(get_plugin_list)[i].path]
           /\ Handles(Appended) \subseteq Range(handlers)

\* the value a marker gives a keyword, "absent" when it does not name it
KwOf(m, a) ==
    IF \E i \in DOMAIN m : m[i].arg = a
    THEN m[CHOOSE i \in DOMAIN m : m[i].arg = a].value
    ELSE "absent"

\* C7: with incoming and outgoing each absent, True or False, private is
\* outgoing when outgoing is present, else not incoming when incoming is
\* present, else False.
C7_PrivateFlag ==
    LET incoming == KwOf(marker, "incoming")
        outgoing == KwOf(marker, "outgoing")
    IN  (/\ private # "None"
         /\ incoming \in {"absent", "True", "False"}
         /\ outgoing \in {"absent", "True", "False"})
            => private = IF outgoing # "absent" THEN outgoing
                         ELSE IF incoming = "True" THEN "False"
                         ELSE IF incoming = "False" THEN "True"
                         ELSE "False"

\* outgoing=True has overridden incoming=True
C7_Witness ==
    /\ private = "True"
    /\ KwOf(marker, "incoming") = "True"
    /\ KwOf(marker, "outgoing") = "True"

\* os.path.join of path components with '/'
RECURSIVE JoinAll(_)
JoinAll(parts) ==
    IF Len(parts) = 1 THEN Head(parts)
    ELSE Head(parts) \o <<"/">> \o JoinAll(Tail(parts))

\* <dirs>/<base> of a file
DirsBase(f) == JoinAll(f.dirs \o <<SplitExt(f.file)[1]>>)

\* C8: the relative path of every record, and the location register_all logs
\* for it, is <dirs>/<base> of its file.
C8_RelativePath ==
    \A i \in DOMAIN active_plugins :
        LET p == active_plugins[i]
            f == FileAt(p.full_path)
        IN  /\ Path(p) = DirsBase(f)
            /\ get_plugin_location(p.full_path) = DirsBase(f)

\* the records of the registry made from a file
RecordsOf(f) ==
    SelectSeq(active_plugins, LAMBDA p : p.full_path = FullPath(f))

\* C9: register_all makes of plugins/ping.py one record, named 'Ping' as the
\* class declares, with path 'ping' and one callback 'ping' that is private.
C9_PingExample ==
    (/\ Ended
     /\ hist = <<Call("register_all", "ok")>>
     /\ PingFile \in Range(disk))
        => /\ Len(RecordsOf(PingFile)) = 1
           /\ RecordsOf(PingFile)[1].name = s_Ping
           /\ Path(RecordsOf(PingFile)[1]) = s_ping
           /\ Len(RecordsOf(PingFile)[1].callbacks) = 1
           /\ RecordsOf(PingFile)[1].callbacks[1].name = s_ping
           /\ RecordsOf(PingFile)[1].callbacks[1].private

\* C10: a register_all that returns has appended one record per '.py' file,
\* in the order of the plugin list, also for a file without callbacks; the
\* records it found are unchanged and in place; every callback of the new
\* records is added to the table once; it returns the registry.  Nothing is
\* deduplicated: two calls in a row over n files leave 2n records.
C10_RegisterAppends ==
    (Ended /\ Last = Call("register_all", "ok"))
        => /\ Len(Appended) = Len(get_plugin_list)
           /\ \A i \in DOMAIN Appended :
                  Appended[i].full_path = get_plugin_list[i].path
           /\ SubSeq(active_plugins, 1, Len(pre.active)) = pre.active
           /\ Len(handlers) = Len(pre.handlers) + Cardinality(Handles(Appended))
           /\ SubSeq(handlers, 1, Len(pre.handlers)) = pre.handlers
           /\ Range(handlers) = Range(pre.handlers) \cup Handles(Appended)
           /\ ret = active_plugins
           /\ hist = <<Call("register_all", "ok"), Call("register_all", "ok")>>
                  => /\ Len(active_plugins) = 2 * Len(get_plugin_list)
                     /\ \A i \in DOMAIN get_plugin_list :
                            active_plugins[i].full_path
                                = active_plugins[Len(get_plugin_list) + i].full_path

\* two calls in a row over two files, one of them without callbacks, have
\* left four records
C10_Witness ==
    /\ Ended
    /\ hist = <<Call("register_all", "ok"), Call("register_all", "ok")>>
    /\ Len(active_plugins) = 4
    /\ active_plugins[1].full_path = active_plugins[3].full_path
    /\ \E i \in DOMAIN Appended : Appended[i].callbacks = <<>>
    /\ \E i \in DOMAIN Appended : Appended[i].callbacks # <<>>

\* the callback handles of one plugin
HandlesOf(p) == {p.callbacks[j].callback : j \in DOMAIN p.callbacks}

\* the list without its element at index i
Without(list, i) == SubSeq(list, 1, i - 1) \o SubSeq(list, i + 1, Len(list))

\* C14: while unregister_plugin(p) removes p's callbacks from the client the
\* registry is untouched; when it has returned, one record equal to p is gone
\* from the registry, the other records are in their order, the table has
\* lost p's handlers and no others, and every handler of a plugin that is
\* still active and was in the table is in it.
C14_UnregisterFrame ==
    /\ (pc = "unregister_plugin" /\ caller = "idle")
           => active_plugins = pre.active
    /\ (Ended /\ Last = Call("unregister_plugin", "ok"))
           => /\ \E i \in DOMAIN pre.active :
                    /\ pre.active[i] = pre.plugin
                    /\ active_plugins = Without(pre.active, i)
              /\ Len(active_plugins) = Len(pre.active) - 1
              /\ handlers = SelectSeq(pre.handlers,
                                      LAMBDA h : h \notin HandlesOf(pre.plugin))
              /\ (Handles(active_plugins) \cap Range(pre.handlers))
                     \subseteq Range(handlers)

\* a plugin with a callback has been unregistered while another plugin with
\* a callback stays active with its handler in the table
C14_Witness ==
    /\ Ended
    /\ Last = Call("unregister_plugin", "ok")
    /\ pre.plugin.callbacks # <<>>
    /\ HandlesOf(pre.plugin) \cap Range(handlers) = {}
    /\ HandlesOf(pre.plugin) \subseteq Range(pre.handlers)
    /\ Handles(active_plugins) # {}
    /\ Handles(active_plugins) \subseteq Range(handlers)

\* C15: an unregister_plugin(p) that fails because p is not in the registry
\* leaves the registry and the handler table as they were.
C15_FailureChangesNothing ==
    (Ended /\ Last = Call("unregister_plugin", "ValueError"))
        => /\ active_plugins = pre.active
           /\ handlers = pre.handlers

\* the file name ends with '.py' after a base name that is not only dots
HasPyExtension(file) ==
    /\ Len(file) > 3
    /\ SubSeq(file, Len(file) - 2, Len(file)) = s_py
    /\ \E i \in 1..(Len(file) - 3) : file[i] # "."

\* the '.py' files of the tree, as a set
PyFiles == {f \in Range(disk) : HasPyExtension(f.file)}

\* C12: the scan returns one (name, path) pair per '.py' file of the tree, at
\* any depth, the name being the file name without '.py' and the path the
\* absolute path, and no pair for another file; the pairs are those of the
\* set of files, whatever the order of enumeration.
C12_ScanExact ==
    (Ended /\ Last = Call("_get_plugin_list", "ok"))
        => /\ Len(ret) = Cardinality({i \in DOMAIN disk : disk[i] \in PyFiles})
           /\ Range(ret) =
                  {[name |-> SubSeq(f.file, 1, Len(f.file) - 3),
                    path |-> FullPath(f)] : f \in PyFiles}
           /\ \A i \in DOMAIN ret : StartsWith(ret[i].path, plugin_path)

\* a tree with a '.py' file two directories down, whose base name has a dot,
\* and two other files has given one pair
C12_Witness ==
    /\ Ended
    /\ Last = Call("_get_plugin_list", "ok")
    /\ Len(disk) = 3
    /\ Len(ret) = 1
    /\ ret[1].name = <<"a", ".", "b">>

\* the class of the inspected module
InspectedClass == disk[1].body[Len(disk[1].body)]

\* C11: for a qualifying class that declares neither name nor help, in a
\* module without an assignment to __version__, _get_plugin_info does not
\* fail, whatever the other statements, and gives '' for name, help and
\* version.
C11_EmptyMetadata ==
    (/\ Ended
     /\ Last.op = "_get_plugin_info"
     /\ InspectedClass.attr_name = None
     /\ InspectedClass.attr_help = None
     /\ \A i \in DOMAIN disk[1].body :
            ~(disk[1].body[i].kind = "Assign" /\ disk[1].body[i].name = s_version))
        => /\ Last.res = "ok"
           /\ ret = [version |-> <<>>, name |-> <<>>, help |-> <<>>]

\* an async method of the class that is a handler and whose decorators all
\* have the shape events.<x>(<call>, ...)
WellFormedHandler(method) ==
    /\ method.kind = "AsyncFunctionDef"
    /\ method.handler
    /\ \A i \in DOMAIN method.decorator_list :
           /\ method.decorator_list[i].shape = "x.y(...)"
           /\ \A j \in DOMAIN method.decorator_list[i].args :
                  method.decorator_list[i].args[j].call

\* the names of the methods of a class body that are well-formed handlers
RECURSIVE WellFormedNames(_)
WellFormedNames(methods) ==
    IF methods = <<>> THEN <<>>
    ELSE IF WellFormedHandler(Head(methods))
         THEN <<Head(methods).name>> \o WellFormedNames(Tail(methods))
         ELSE WellFormedNames(Tail(methods))

\* C13: _get_plugin_callbacks does not fail on a plain method, an async
\* method without marker or a method with decorators of another shape or
\* with malformed arguments, and returns the callbacks of the well-formed
\* marked async methods, in source order.
C13_OnlyWellFormedHandlers ==
    (Ended /\ Last.op = "_get_plugin_callbacks")
        => /\ Last.res = "ok"
           /\ [i \in DOMAIN ret |-> ret[i].name]
                  = WellFormedNames(InspectedClass.body)

====
